---------------------------- MODULE Spec2Model ----------------------------
(***************************************************************************)
(* A model of the useful_cli command-line utilities:                       *)
(*   - useful_cli/utils.py            (conversion registry, subplot layout)*)
(*   - useful_cli/cli/combine_plots.py (layout selection of the tiling)    *)
(*   - useful_cli/cli/plot_2d.py       (XVG parsing, conversion, report)   *)
(*   - useful_cli/cli/visualize_pdb.py, visualize_and_align.py             *)
(*                                     (validation and engine calls)       *)
(* Each script is a sequential run; a run is modelled as a program counter *)
(* walking through the steps of main().  Python exceptions end the run and *)
(* are recorded by name.                                                   *)
(***************************************************************************)
EXTENDS Integers, Sequences, FiniteSets, TLC

VARIABLES
    \* calls of utils.py and the run of combine_plots.py
    ufn,        \* the function called last ("none" before the first call)
    uhist,      \* the apply_conversion calls made so far: <<conversion, temp>>
    udata0,     \* the data the first call was given
    udata,      \* the data returned by the last call (<<>> when it raised)
    uunit,      \* the unit label returned by the last call
    uexc,       \* the exception the last call raised ("none" if it returned)
    un,         \* the number of subplots asked for
    ulayout,    \* <<n_cols, n_rows>> once a layout is chosen, else <<>>
    cpargs      \* the arguments of combine_plots: dimension, size, titles

uvars == <<ufn, uhist, udata0, udata, uunit, uexc, un, ulayout, cpargs>>

VARIABLES
    \* a run of plot_2d.py
    argv,       \* the options as given on the command line
    args,       \* the options main() assigns: x_conversion, temp, legend
    ppc,        \* "loop", "plotted", "done" or "failed"
    pi,         \* the number of files opened so far (i + 1 of the loop)
    seen,       \* for each file opened, if its metadata held the marker
    flines,     \* the lines of the file at hand
    px, py,     \* x and y as parsed (line 192)
    cx, cy,     \* x and y after the unit conversion (line 297)
    fx, fy,     \* x and y as analysed and plotted
    fx_unit,    \* x_unit and y_unit
    fy_unit,
    report,     \* what the analysis printed for the file at hand
    plots,      \* the label of every plt.plot call, in order
    saved,      \* the number of plt.savefig calls
    pexc        \* the exception that ended the run ("none" if none did)

pvars == <<argv, args, ppc, pi, seen, flines, px, py, cx, cy, fx, fy, fx_unit,
           fy_unit, report, plots, saved, pexc>>

VARIABLES
    \* a run of visualize_pdb.py or of visualize_and_align.py
    vargv,      \* the script and its options as given on the command line
    vpc,        \* "validate", "load_ref", "load", "render", "delete",
                \* "done" or "failed"
    vi,         \* the (1-based) position of the input at hand, 0 before
    voutputs,   \* args.outputs once validation has set or accepted it
    validated,  \* TRUE once step 1 of main() has passed
    session,    \* the objects and selections of the PyMOL session
    vlog,       \* the calls made to pymol.cmd, in order
    verr        \* the exception that ended the run ("none" if none did)

vvars == <<vargv, vpc, vi, voutputs, validated, session, vlog, verr>>

vars == <<uvars, pvars, vvars>>

(***************************************************************************)
(* Bounds of the model.                                                    *)
(***************************************************************************)
MaxCalls == 2
MaxN == 12
MaxFigs == 4
MaxData == 3
MaxFiles == 2
MaxInputs == 2

(***************************************************************************)
(* Numbers.  A float is modelled exactly, as the rational n/d times powers *)
(* of the three irrational-looking constants the code multiplies by:       *)
(*    k : exponent of 1.38064852 * 6.02 / 1000   (kB * NA / 1000)          *)
(*    c : exponent of 0.239005736            (kJ/mol -> kcal/mol)          *)
(*    p : exponent of np.pi / 180            (degree -> radian)            *)
(* Rounding of IEEE doubles is not modelled: equalities of the model are   *)
(* the ones the code satisfies up to floating-point tolerance.             *)
(***************************************************************************)
Abs(i) == IF i < 0 THEN -i ELSE i

RECURSIVE GCD(_, _)
GCD(a, b) == IF b = 0 THEN a ELSE GCD(b, a % b)

Zero == [n |-> 0, d |-> 1, k |-> 0, c |-> 0, p |-> 0]

\* the normal form of (n/d) * K^k * C^c * P^p, d > 0
Mk(n, d, k, c, p) ==
    IF n = 0 THEN Zero
    ELSE LET g == GCD(Abs(n), d)
         IN  [n |-> n \div g, d |-> d \div g, k |-> k, c |-> c, p |-> p]

Rat(n, d) == Mk(n, d, 0, 0, 0)

NMul(a, b) ==
    LET g1 == GCD(Abs(a.n), b.d)
        g2 == GCD(Abs(b.n), a.d)
    IN  IF a.n = 0 \/ b.n = 0 THEN Zero
        ELSE Mk((a.n \div g1) * (b.n \div g2), (a.d \div g2) * (b.d \div g1),
                a.k + b.k, a.c + b.c, a.p + b.p)

\* 1 / b, for b # 0
NInv(b) ==
    [n |-> IF b.n < 0 THEN -b.d ELSE b.d, d |-> Abs(b.n),
     k |-> -b.k, c |-> -b.c, p |-> -b.p]

NDiv(a, b) == NMul(a, NInv(b))

\* a + b and a - b, for two numbers of the same unit (equal exponents, or zero)
NAdd(a, b) ==
    LET g == GCD(a.d, b.d)
    IN  IF a.n = 0 THEN b
        ELSE IF b.n = 0 THEN a
        ELSE Mk(a.n * (b.d \div g) + b.n * (a.d \div g), (a.d \div g) * b.d,
                a.k, a.c, a.p)

NNeg(a) == [a EXCEPT !.n = -a.n]

NSub(a, b) == NAdd(a, NNeg(b))

NAbs(a) == [a EXCEPT !.n = Abs(a.n)]

\* a < b, for two numbers of the same unit (the constants are positive)
NLess(a, b) ==
    LET g == GCD(a.d, b.d)
    IN  a.n * (b.d \div g) < b.n * (a.d \div g)

\* elementwise operations of a numpy array
ArrMul(xs, f) == [i \in 1..Len(xs) |-> NMul(xs[i], f)]

\* a division written as a multiplication
ArrDivBug(xs, f) == [i \in 1..Len(xs) |-> NMul(xs[i], f)]

ArrDiv(xs, f) == [i \in 1..Len(xs) |-> NDiv(xs[i], f)]

(***************************************************************************)
(* Python's None, for an optional number: <<>> is None, <<v>> is v.        *)
(***************************************************************************)
None == <<>>

Some(v) == <<v>>

(***************************************************************************)
(* utils.py                                                                *)
(***************************************************************************)
\* utils.py uses np.pi, np.sqrt and np.floor but never imports numpy
UtilsImportsNumpy == FALSE

KBNA == Mk(1, 1, 1, 0, 0)

KJ2KCAL == Mk(1, 1, 0, 1, 0)

PI180 == Mk(1, 1, 0, 0, 1)

ConversionNames ==
    {"ps to ns", "ns to ps", "kT to kJ/mol", "kJ/mol to kT", "kT to kcal/mol",
     "kcal/mol to kT", "kJ/mol to kcal/mol", "kcal/mol to kJ/mol",
     "degree to radian", "radian to degree"}

\* the conversions whose lambda has a required parameter temp
NeedsTemp(name) ==
    name \in {"kT to kJ/mol", "kJ/mol to kT", "kT to kcal/mol", "kcal/mol to kT"}

UsesNumpy(name) == name \in {"degree to radian", "radian to degree"}

\* the result of a call: an exception, or data with a unit label
Raise(e) == [exc |-> e, data |-> <<>>, unit |-> "None"]

Return(data, unit) == [exc |-> "none", data |-> data, unit |-> unit]

\* 1.38064852 * 6.02 * temp / 1000: the constant 1.38064852 * 6.02 / 1000
\* times temp
KTFactor(temp) == NMul(KBNA, temp)

\* the unit label of an entry of the dictionary
UnitLabel(name) ==
    CASE name = "ps to ns" -> "ns"
      [] name = "ns to ps" -> "ps"
      [] name = "kT to kJ/mol" -> "kJ/mol"
      [] name = "kJ/mol to kT" -> "kT"
      [] name = "kT to kcal/mol" -> "kcal/mol"
      [] name = "kcal/mol to kT" -> "kT"
      [] name = "kJ/mol to kcal/mol" -> "kcal/mol"
      [] name = "kcal/mol to kJ/mol" -> "kJ/mol"
      [] name = "degree to radian" -> "radian"
      [] name = "radian to degree" -> "degree"

\* the body of an entry's lambda, with its temp bound to the number t
LambdaBody(name, x, t) ==
    CASE name = "ps to ns" -> ArrDiv(x, Rat(1000, 1))
      [] name = "ns to ps" -> ArrMul(x, Rat(1000, 1))
      [] name = "kT to kJ/mol" -> ArrMul(x, KTFactor(t))
      [] name = "kJ/mol to kT" -> ArrDiv(x, KTFactor(t))
      [] name = "kT to kcal/mol" -> ArrMul(ArrMul(x, KTFactor(t)), KJ2KCAL)
      [] name = "kcal/mol to kT" -> ArrDiv(x, NMul(KTFactor(t), KJ2KCAL))
      [] name = "kJ/mol to kcal/mol" -> ArrMul(x, KJ2KCAL)
      [] name = "kcal/mol to kJ/mol" -> ArrDiv(x, KJ2KCAL)
      [] name = "degree to radian" -> ArrMul(x, PI180)
      [] name = "radian to degree" -> ArrDiv(x, PI180)

\* func(data, temp): temp is None or a number.  A lambda that uses temp
\* multiplies a float by it (TypeError for None); np is looked up when the
\* body runs.
CallLambda2(name, x, temp) ==
    IF NeedsTemp(name)
    THEN IF temp = None THEN Raise("TypeError")
         ELSE Return(LambdaBody(name, x, temp[1]), UnitLabel(name))
    ELSE IF UsesNumpy(name) /\ ~UtilsImportsNumpy THEN Raise("NameError")
    ELSE Return(LambdaBody(name, x, Zero), UnitLabel(name))

\* func(data): a lambda with a required temp cannot be called with one argument
CallLambda1(name, x) ==
    IF NeedsTemp(name) THEN Raise("TypeError")
    ELSE CallLambda2(name, x, None)

\* conversions[conversion]: KeyError for a key the dictionary lacks
Lookup(name) == name \in ConversionNames

\* conversions.get(conversion) in place of conversions[conversion]: a name
\* that is not registered leaves the data as it is
apply_conversion_get(data, conversion, temp) ==
    IF conversion = "None" \/ ~Lookup(conversion) THEN Return(data, "None")
    ELSE LET r == CallLambda2(conversion, data, temp)
         IN  IF r.exc = "TypeError" THEN CallLambda1(conversion, data) ELSE r

apply_conversion(data, conversion, temp) ==
    IF conversion = "None" THEN Return(data, "None")
    ELSE IF ~Lookup(conversion) THEN Raise("KeyError")
    ELSE LET r == CallLambda2(conversion, data, temp)
         IN  IF r.exc = "TypeError" THEN CallLambda1(conversion, data) ELSE r


\* floor(sqrt(n))
ISqrt(n) == CHOOSE r \in 0..n : r * r <= n /\ n < (r + 1) * (r + 1)

\* int(np.sqrt(n) + 0.5): sqrt(n) >= r + 1/2 iff n > r*r + r
RoundSqrt(n) == LET r == ISqrt(n) IN IF n > r * r + r THEN r + 1 ELSE r

\* lines 71-82, once np is bound
LayoutArith(n) ==
    LET n_cols == IF RoundSqrt(n) * RoundSqrt(n) = n THEN ISqrt(n)
                  ELSE ISqrt(n) + 1
        n_rows == IF n % n_cols = 0 THEN n \div n_cols
                  ELSE (n \div n_cols) + 1
    IN  <<n_cols, n_rows>>

\* the first statement of the function evaluates np.sqrt
get_subplot_layout(n) ==
    IF ~UtilsImportsNumpy THEN [exc |-> "NameError", layout |-> <<>>]
    ELSE [exc |-> "none", layout |-> LayoutArith(n)]

(***************************************************************************)
(* cli/combine_plots.py, main(): the choice of the grid.  dimension, size  *)
(* and titles are None or a list, given here by its length (0 for None);   *)
(* dimension [c, r] is given as <<c, r>>.                                  *)
(***************************************************************************)
CombineLayout(nfigs, dimension) ==
    IF dimension = <<>> THEN get_subplot_layout(nfigs)
    ELSE IF Len(dimension) # 2 THEN [exc |-> "ValueError", layout |-> <<>>]
    ELSE [exc |-> "none", layout |-> <<dimension[1], dimension[2]>>]

\* lines 50-85: fig is unbound when --size has the wrong length; the titles
\* are counted after the grid is chosen; add_subplot refuses an index
\* beyond n_rows * n_cols
CombineMain(nfigs, dimension, size, titles) ==
    LET l == CombineLayout(nfigs, dimension)
    IN  IF l.exc # "none" THEN l
        ELSE IF titles # 0 /\ titles # nfigs
             THEN [exc |-> "ValueError", layout |-> l.layout]
        ELSE IF size # 0 /\ size # 2
             THEN [exc |-> "UnboundLocalError", layout |-> l.layout]
        ELSE IF nfigs > l.layout[1] * l.layout[2]
             THEN [exc |-> "ValueError", layout |-> l.layout]
        ELSE l

(***************************************************************************)
(* The inputs of the utils calls.                                          *)
(***************************************************************************)
\* 298.15 K
T298 == Rat(5963, 20)

Temps == {None, Some(T298), Some(Rat(300, 1)), Some(Rat(310, 1))}

DataInputs ==
    {<<Rat(1, 1)>>, <<Rat(0, 1)>>, <<Rat(-5, 2)>>, <<Rat(2, 1), Rat(1, 3)>>}

ConversionArgs == ConversionNames \cup {"None", "foo to bar"}

Dimensions == {<<>>, <<2>>, <<2, 2>>, <<1, 3>>, <<3, 1, 1>>}

InitUtils ==
    /\ ufn = "none"
    /\ uhist = <<>>
    /\ udata0 \in DataInputs
    /\ udata = udata0
    /\ uunit = "None"
    /\ uexc = "none"
    /\ un = 0
    /\ ulayout = <<>>
    /\ cpargs = <<>>

\* data, unit = apply_conversion(data, conversion, temp)
ApplyConversion ==
    /\ ufn \in {"none", "apply_conversion"}
    /\ uexc = "none"
    /\ Len(uhist) < MaxCalls
    /\ \E conversion \in ConversionArgs, temp \in Temps :
          LET r == apply_conversion(udata, conversion, temp)
          IN  /\ ufn' = "apply_conversion"
              /\ uhist' = Append(uhist, <<conversion, temp>>)
              /\ udata' = r.data
              /\ uunit' = r.unit
              /\ uexc' = r.exc
    /\ UNCHANGED <<udata0, un, ulayout, cpargs>>
    /\ UNCHANGED <<pvars, vvars>>

\* n_cols, n_rows = get_subplot_layout(n)
GetSubplotLayout ==
    /\ ufn = "none"
    /\ \E n \in 1..MaxN :
          LET r == get_subplot_layout(n)
          IN  /\ ufn' = "get_subplot_layout"
              /\ un' = n
              /\ ulayout' = r.layout
              /\ uexc' = r.exc
    /\ UNCHANGED <<uhist, udata0, udata, uunit, cpargs>>
    /\ UNCHANGED <<pvars, vvars>>

\* a run of combine_plots over nfigs figures
CombinePlots ==
    /\ ufn = "none"
    /\ \E nfigs \in 1..MaxFigs, dimension \in Dimensions,
          size \in {0, 1, 2}, titles \in 0..MaxFigs :
          LET r == CombineMain(nfigs, dimension, size, titles)
          IN  /\ ufn' = "combine_plots"
              /\ un' = nfigs
              /\ cpargs' = <<dimension, size, titles>>
              /\ ulayout' = r.layout
              /\ uexc' = r.exc
    /\ UNCHANGED <<uhist, udata0, udata, uunit>>
    /\ UNCHANGED <<pvars, vvars>>


(***************************************************************************)
(* cli/plot_2d.py: the lines of an XVG file.                               *)
(* A line is given by what the parser looks at: its first character, if it *)
(* contains '#', if it contains the marker xaxis  label "Time (ps)", and   *)
(* line.split().                                                           *)
(***************************************************************************)
Line(first, hash, marker, tokens) ==
    [first |-> first, hash |-> hash, marker |-> marker, tokens |-> tokens]

\* "@ header\n"
LHeader == Line("@", FALSE, FALSE, <<"@", "header">>)

\* "@    xaxis  label \"Time (ps)\"\n"
LMarker == Line("@", FALSE, TRUE, <<"@", "xaxis", "label", "\"Time", "(ps)\"">>)

\* "# comment\n"
LComment == Line("#", TRUE, FALSE, <<"#", "comment">>)

\* "#! FIELDS time vol\n", written where a run is extended
LFields == Line("#", TRUE, FALSE, <<"#!", "FIELDS", "time", "vol">>)

\* "1.0 2.0 4.0\n", "2.0 4.0 4.0\n", "0.5 4.0\n"
LData1 == Line("1", FALSE, FALSE, <<"1.0", "2.0", "4.0">>)

LData2 == Line("2", FALSE, FALSE, <<"2.0", "4.0", "4.0">>)

LData3 == Line("0", FALSE, FALSE, <<"0.5", "4.0">>)

\* "4.0 #! FIELDS time vol\n": an incomplete row to which the header of an
\* extended run was appended
LAppended == Line("4", TRUE, FALSE, <<"4.0", "#!", "FIELDS", "time", "vol">>)

\* "abc 1.0 1.0\n" and the blank line "\n"
LBad == Line("a", FALSE, FALSE, <<"abc", "1.0", "1.0">>)

LBlank == Line("\n", FALSE, FALSE, <<>>)

\* float(token): the value, or <<>> where float raises ValueError
Float(token) ==
    CASE token = "1.0" -> Some(Rat(1, 1))
      [] token = "2.0" -> Some(Rat(2, 1))
      [] token = "4.0" -> Some(Rat(4, 1))
      [] token = "0.5" -> Some(Rat(1, 2))
      [] OTHER -> None

IsMeta(line) == line.first = "#" \/ line.first = "@"

\* lines 164-169: m, the number of lines that start with '#' or '@'
RECURSIVE CountMeta(_)
CountMeta(lines) ==
    IF lines = <<>> THEN 0
    ELSE (IF IsMeta(Head(lines)) THEN 1 ELSE 0) + CountMeta(Tail(lines))

\* line 168: some line that starts with '#' or '@' holds the marker
HasMarker(lines) == \E j \in 1..Len(lines) : IsMeta(lines[j]) /\ lines[j].marker

\* lines 183-185: one data line; column is the 0-based index of the y token
ParseData(acc, line, column) ==
    IF Len(line.tokens) = 0 THEN [acc EXCEPT !.exc = "IndexError"]
    ELSE IF Float(line.tokens[1]) = None THEN [acc EXCEPT !.exc = "ValueError"]
    ELSE IF Len(line.tokens) < column + 1 THEN [acc EXCEPT !.exc = "IndexError"]
    ELSE IF Float(line.tokens[column + 1]) = None
         THEN [acc EXCEPT !.exc = "ValueError"]
    ELSE [acc EXCEPT !.x = Append(@, Float(line.tokens[1])[1]),
                     !.y = Append(@, Float(line.tokens[column + 1])[1])]

\* x[x <= v]: the value of the row after the mark is kept as well
MaskNotAbove(x, v) == SelectSeq(x, LAMBDA e : ~NLess(v, e))

\* x[x < v]: the elements of x below v, wherever they stand
MaskBelow(x, v) == SelectSeq(x, LAMBDA e : NLess(e, v))

\* lines 187-191: a line with '#' among the data; next is the line after it
Splice(acc, next) ==
    IF Len(next.tokens) = 0 THEN [acc EXCEPT !.exc = "IndexError"]
    ELSE IF Float(next.tokens[1]) = None THEN [acc EXCEPT !.exc = "ValueError"]
    ELSE LET x == MaskBelow(acc.x, Float(next.tokens[1])[1])
         IN  [acc EXCEPT !.x = x, !.y = SubSeq(acc.y, 1, Len(x))]

\* lines 175-191: the body of the loop for the line at (1-based) position j
ParseLine(acc, lines, j, column) ==
    IF ~lines[j].hash /\ lines[j].first # "@"
    THEN ParseData(acc, lines[j], column)
    ELSE IF lines[j].hash THEN Splice(acc, lines[j + 1])
    ELSE acc

\* the last position of the slice lines[m:-1]
LastParsed(lines) == Len(lines) - 1

\* lines 173-191: for line in lines[m:-1], from position j on
RECURSIVE ParseFrom(_, _, _, _)
ParseFrom(acc, lines, j, column) ==
    IF j > LastParsed(lines) \/ acc.exc # "none" THEN acc
    ELSE ParseFrom(ParseLine(acc, lines, j, column), lines, j + 1, column)

\* lines 159-192: x, y of a file
Parse(lines, column) ==
    ParseFrom([exc |-> "none", x |-> <<>>, y |-> <<>>], lines,
              CountMeta(lines) + 1, column)

(***************************************************************************)
(* cli/plot_2d.py: labels and units.  The strings the code takes apart or  *)
(* compares (--xlabel, --ylabel, x_unit, y_unit) are sequences of          *)
(* characters; '' is <<>>.                                                 *)
(***************************************************************************)
Has(s, ch) == \E j \in 1..Len(s) : s[j] = ch

\* s.split(ch), for a one-character separator
RECURSIVE Split(_, _)
Split(s, ch) ==
    IF ~Has(s, ch) THEN <<s>>
    ELSE LET j == CHOOSE j \in 1..Len(s) :
                      s[j] = ch /\ \A h \in 1..(j - 1) : s[h] # ch
         IN  <<SubSeq(s, 1, j - 1)>> \o Split(SubSeq(s, j + 1, Len(s)), ch)

\* lines 195-209 (and 212-226): the unit of a label; label is None or Some
LabelUnit(label) ==
    IF label = None THEN <<>>
    ELSE IF Has(label[1], "(")
         THEN IF Has(Split(label[1], "(")[2], "$")
              THEN Split(Split(label[1], "$")[2], "$")[1]
              ELSE Split(Split(label[1], "(")[2], ")")[1]
    ELSE <<>>

\* x_var[-1] of line 202 raises IndexError when the label starts with '('
LabelRaises(label) ==
    /\ label # None
    /\ Has(label[1], "(")
    /\ Split(label[1], "(")[1] = <<>>

\* the unit labels the code assigns, as written in the code
U_ns == <<" ", "n", "s">>

U_ps == <<" ", "p", "s">>

U_kT_sp == <<" ", "k", "T">>

U_kT == <<"k", "T">>

U_kcal_sp == <<" ", "k", "c", "a", "l", "/", "m", "o", "l">>

U_kcal == <<"k", "c", "a", "l", "/", "m", "o", "l">>

U_kJ == <<"k", "J", "/", "m", "o", "l">>

U_radian == <<" ", "r", "a", "d", "i", "a", "n">>

U_degree == <<" ", "d", "e", "g", "r", "e", "e">>

(***************************************************************************)
(* cli/plot_2d.py: unit conversion, lines 228-297.  A rule is one `if` of  *)
(* the chain: the name it compares the option with, the operation, the     *)
(* factor and the unit it assigns.  The chain runs every rule in order.    *)
(***************************************************************************)
Rule(name, op, factor, unit) ==
    [name |-> name, op |-> op, factor |-> factor, unit |-> unit]

\* lines 234-265
XRules ==
    << Rule("ps to ns", "div", "1000", U_ns),
       Rule("ns to ps", "mul", "1000", U_ps),
       Rule("kT to kJ/mol", "mul", "c1", U_kcal_sp),
       Rule("kJ/mol to kT", "div", "c1", U_kT_sp),
       Rule("kT to kcal/mol", "mul", "c1c3", U_kcal_sp),
       Rule("kcal/mol to kT", "div", "c1c3", U_kT_sp),
       Rule("kJ/mol to kcal/mol", "mul", "c3", U_kcal),
       Rule("kcal/mol to kJ/mol", "div", "c3", U_kJ),
       Rule("degree to radian", "mul", "c2", U_radian),
       Rule("radian to degree", "div", "c2", U_degree) >>

\* lines 268-297
YRules ==
    << Rule("kT to kcal/mol", "mul", "c1", U_kcal_sp),
       Rule("kcal/mol to kT", "div", "c1", U_kT_sp),
       Rule("kT to kcal/mol", "mul", "c1c3", U_kcal),
       Rule("kcal/mol to kT", "div", "c1c3", U_kcal),
       Rule("kJ/mol to kcal/mol", "mul", "c3", U_kcal),
       Rule("kcal/mol to kJ/mol", "div", "c3", U_kcal),
       Rule("kJ/mol to kT", "div", "c1", U_kT),
       Rule("kT to kJ/mol", "mul", "c1", U_kJ),
       Rule("degree to radian", "mul", "c2", U_radian),
       Rule("radian to degree", "div", "c2", U_degree) >>

\* lines 231-233: conversion1, conversion2, conversion3 and their products
Factor(tag, temp) ==
    CASE tag = "1000" -> Rat(1000, 1)
      [] tag = "c1" -> KTFactor(temp)
      [] tag = "c2" -> PI180
      [] tag = "c3" -> KJ2KCAL
      [] tag = "c1c3" -> NMul(KTFactor(temp), KJ2KCAL)

\* one `if` of the chain, on s = [data, unit]
ApplyRule(s, rule, conversion, temp) ==
    IF conversion # rule.name THEN s
    ELSE [data |-> IF rule.op = "mul"
                   THEN ArrMul(s.data, Factor(rule.factor, temp))
                   ELSE ArrDiv(s.data, Factor(rule.factor, temp)),
          unit |-> rule.unit]

RECURSIVE ApplyRules(_, _, _, _)
ApplyRules(s, rules, conversion, temp) ==
    IF rules = <<>> THEN s
    ELSE ApplyRules(ApplyRule(s, Head(rules), conversion, temp), Tail(rules),
                    conversion, temp)

\* lines 299-302: x = x * args.factor_x, for a factor that is None or Some
Scale(data, factor) == IF factor = None THEN data ELSE ArrMul(data, factor[1])

\* lines 309-310: data[int(0.01 * float(percent) * len(data)):]
DropFirst(data, percent) ==
    IF percent = None THEN data
    ELSE SubSeq(data, ((percent[1] * Len(data)) \div 100) + 1, Len(data))

\* lines 316-317: data[:int(0.01 * float(percent) * len(data))]
KeepFirst(data, percent) ==
    IF percent = None THEN data
    ELSE SubSeq(data, 1, (percent[1] * Len(data)) \div 100)

(***************************************************************************)
(* cli/plot_2d.py: the statistics, lines 319-329.                          *)
(***************************************************************************)
RECURSIVE Sum(_)
Sum(ys) == IF ys = <<>> THEN Zero ELSE NAdd(Head(ys), Sum(Tail(ys)))

\* np.mean(y), for a y that is not empty
Mean(ys) == NDiv(Sum(ys), Rat(Len(ys), 1))

\* max(y), min(y)
Max(ys) == ys[CHOOSE i \in 1..Len(ys) : \A j \in 1..Len(ys) : ~NLess(ys[i], ys[j])]

Min(ys) == ys[CHOOSE i \in 1..Len(ys) : \A j \in 1..Len(ys) : ~NLess(ys[j], ys[i])]

\* y.index(v): the first position that holds v
IndexOf(ys, v) ==
    CHOOSE i \in 1..Len(ys) : ys[i] = v /\ \A j \in 1..(i - 1) : ys[j] # v

\* np.abs(y - y_avg)
AbsDiff(ys, avg) == [i \in 1..Len(ys) |-> NAbs(NSub(ys[i], avg))]

\* np.argmin(diff): the first position of the least element
ArgMin(ds) == IndexOf(ds, Min(ds))

\* the comparison of line 323
IsTimeUnit(unit) == unit = U_ns \/ unit = U_ps

NoReport ==
    [y_avg |-> None, y_max |-> None, y_min |-> None, timed |-> FALSE,
     x_at_max |-> None, x_at_min |-> None, t_avg |-> None, y_near |-> None]

\* what lines 319-329 print (the numbers, before formatting); the RMSF of
\* line 321 is a square root and is left out: nothing depends on it
Report(x, y, x_unit) ==
    LET y_avg == Mean(y)
        near == ArgMin(AbsDiff(y, y_avg))
    IN  IF IsTimeUnit(x_unit)
        THEN [y_avg |-> Some(y_avg), y_max |-> Some(Max(y)),
              y_min |-> Some(Min(y)), timed |-> TRUE,
              x_at_max |-> Some(x[IndexOf(y, Max(y))]),
              x_at_min |-> Some(x[IndexOf(y, Min(y))]),
              t_avg |-> Some(x[near]), y_near |-> Some(y[near])]
        ELSE [NoReport EXCEPT !.y_avg = Some(y_avg), !.y_max = Some(Max(y)),
                              !.y_min = Some(Min(y))]

(***************************************************************************)
(* cli/plot_2d.py: main().                                                 *)
(***************************************************************************)
\* args.temp: None, the string of -T (the option has no type), or a float
TempNone == [kind |-> "None", val |-> Zero]

TempStr(v) == [kind |-> "str", val |-> v]

TempFloat(v) == [kind |-> "float", val |-> v]

\* lines 228-229
DefaultTemp(temp) == IF temp.kind = "None" THEN TempFloat(T298) ELSE temp

\* the marker sets the conversion whether or not -cx was given
ScanMarkerAlways(x_conversion, file) ==
    IF HasMarker(file) THEN "ps to ns" ELSE x_conversion

\* lines 164-169: the x conversion after the metadata of a file is scanned
ScanMarker(x_conversion, file) ==
    IF HasMarker(file) /\ x_conversion = "None" THEN "ps to ns"
    ELSE x_conversion

\* one pass of the loop body, lines 152-333, for the i-th file (i from 1):
\* every variable the pass assigns, and the exception that ends it
LoopBody(file, i, a, av) ==
    LET xc == ScanMarker(a.x_conversion, file)
        parsed == Parse(file, av.column)
        temp == DefaultTemp(a.temp)
        a1 == [a EXCEPT !.x_conversion = xc]
        a2 == [a1 EXCEPT !.temp = temp]
        conv_x == ApplyRules([data |-> parsed.x, unit |-> LabelUnit(av.xlabel)],
                             XRules, xc, temp.val)
        conv_y == ApplyRules([data |-> parsed.y, unit |-> LabelUnit(av.ylabel)],
                             YRules, av.y_conversion, temp.val)
        ax == KeepFirst(DropFirst(Scale(conv_x.data, av.factor_x), av.truncate),
                        av.retain)
        ay == KeepFirst(DropFirst(Scale(conv_y.data, av.factor_y), av.truncate),
                        av.retain)
        base == [args |-> a1, exc |-> "none", px |-> <<>>, py |-> <<>>,
                 cx |-> <<>>, cy |-> <<>>, x |-> <<>>, y |-> <<>>,
                 x_unit |-> <<>>, y_unit |-> <<>>, report |-> NoReport,
                 plotted |-> FALSE]
        read == [base EXCEPT !.px = parsed.x, !.py = parsed.y]
        converted == [read EXCEPT !.args = a2, !.cx = conv_x.data,
                                  !.cy = conv_y.data, !.x = ax, !.y = ay,
                                  !.x_unit = conv_x.unit, !.y_unit = conv_y.unit]
    IN  IF parsed.exc # "none" THEN [base EXCEPT !.exc = parsed.exc]
        ELSE IF LabelRaises(av.xlabel) \/ LabelRaises(av.ylabel)
             THEN [read EXCEPT !.exc = "IndexError"]
        ELSE IF temp.kind = "str"
             THEN [read EXCEPT !.args = a2, !.exc = "TypeError"]
        ELSE IF ay = <<>> THEN [converted EXCEPT !.exc = "ValueError"]
        ELSE IF a.legend # 0 /\ a.legend < i
             THEN [converted EXCEPT !.report = Report(ax, ay, conv_x.unit),
                                    !.exc = "IndexError"]
        ELSE [converted EXCEPT !.report = Report(ax, ay, conv_x.unit),
                               !.plotted = TRUE]

\* lines 330-333: the label of the plot of the i-th file; args.legend is
\* args.xvg when no legend was given (lines 149-150)
PlotLabel(legend, i) == IF legend = 0 THEN <<"xvg", i>> ELSE <<"legend", i>>

\* lines 336-350, after a loop over k files: plt.legend is called with
\* args.lengend_col, an attribute the parser never defines
FinishRaises(k) == k > 1

(***************************************************************************)
(* The inputs of a run of plot_2d.py.                                      *)
(***************************************************************************)
DataLines == {LData1, LData2, LData3, LFields, LBad, LBlank}

Prefixes == {<<LHeader>>, <<LComment, LMarker>>}

\* a metadata block followed by at most MaxData lines
FilesOver(alphabet) ==
    {pre \o rest : pre \in Prefixes,
                   rest \in UNION {[1..n -> alphabet] : n \in 0..MaxData}}

XvgFiles == FilesOver(DataLines)

\* the files whose lines after the metadata are all well-formed rows
PlainFiles == FilesOver({LData1, LData2, LData3})

\* files of a run that was restarted or extended: a line with '#' stands
\* among the rows, once or twice, after rows of growing or of falling x,
\* before a row, a line that is no row, or the last line of the file
SpliceFiles ==
    { <<LHeader, LData1, LData2, LAppended, LData2, LData1>>,
      <<LHeader, LData2, LData1, LAppended, LData2, LData1>>,
      <<LHeader, LData1, LData2, LData1, LFields, LData2, LData1>>,
      <<LHeader, LData3, LData1, LData2, LAppended, LData1, LAppended, LData3,
        LData2>>,
      <<LComment, LMarker, LData1, LData2, LAppended, LData2>>,
      <<LHeader, LData1, LAppended, LBad, LData1>>,
      <<LHeader, LData1, LAppended, LBlank, LData1>> }

\* --xlabel "Time (ns)"
TimeLabel == <<"T", "i", "m", "e", " ", "(", "n", "s", ")">>

\* -fx, -fy, -tr, -r: none of them, or -fx 2 -tr 50, or -fy 0.5 -r 50
Extras ==
    {[factor_x |-> None, factor_y |-> None, truncate |-> None, retain |-> None],
     [factor_x |-> Some(Rat(2, 1)), factor_y |-> None, truncate |-> Some(50),
      retain |-> None],
     [factor_x |-> None, factor_y |-> Some(Rat(1, 2)), truncate |-> None,
      retain |-> Some(50)]}

\* -cx and -cy as argparse admits them (choices), "None" when not given
XChoices == ConversionNames \cup {"None"}

YChoices == (ConversionNames \ {"ns to ps", "ps to ns"}) \cup {"None"}

PlotArgvs ==
    {[column |-> col, x_conversion |-> cxn, y_conversion |-> cyn, temp |-> t,
      xlabel |-> xl, ylabel |-> None, legend |-> lg, factor_x |-> e.factor_x,
      factor_y |-> e.factor_y, truncate |-> e.truncate, retain |-> e.retain] :
        col \in {1, 2}, cxn \in XChoices, cyn \in YChoices,
        t \in {TempNone, TempStr(Rat(300, 1))}, xl \in {None, Some(TimeLabel)},
        lg \in {0, MaxFiles}, e \in Extras}

NoExtras(a) ==
    /\ a.factor_x = None /\ a.factor_y = None
    /\ a.truncate = None /\ a.retain = None

PlainConversion(a) ==
    /\ a.temp = TempNone
    /\ a.y_conversion = "None"
    /\ a.x_conversion \in {"None", "ns to ps"}
    /\ a.xlabel = None

\* the command lines that are run over every file of XvgFiles: they vary
\* the column
ForParsing(a) == PlainConversion(a) /\ a.legend = 0 /\ NoExtras(a)

\* the command lines that are run over the well-formed files: they vary the
\* conversion of one axis, -T and --xlabel, or the legend and -fx, -fy,
\* -tr, -r
ForConversion(a) ==
    /\ a.column = 1 /\ a.legend = 0 /\ NoExtras(a)
    /\ a.x_conversion = "None" \/ a.y_conversion = "None"

ForOptions(a) == PlainConversion(a) /\ a.column = 1

\* the runs of the model: a command line and the files it may be given
RunArgvs == {a \in PlotArgvs : ForParsing(a) \/ ForConversion(a) \/ ForOptions(a)}

FilesFor(a) == IF ForParsing(a) THEN XvgFiles \cup SpliceFiles ELSE PlainFiles

InitPlot ==
    /\ argv \in RunArgvs
    /\ args = [x_conversion |-> argv.x_conversion, temp |-> argv.temp,
               legend |-> argv.legend]
    /\ ppc = "loop"
    /\ pi = 0
    /\ seen = <<>>
    /\ flines = <<>>
    /\ px = <<>> /\ py = <<>> /\ cx = <<>> /\ cy = <<>> /\ fx = <<>> /\ fy = <<>>
    /\ fx_unit = <<>> /\ fy_unit = <<>>
    /\ report = NoReport
    /\ plots = <<>>
    /\ saved = 0
    /\ pexc = "none"

\* one pass of the loop of line 152 over the next file of args.xvg
ProcessFile ==
    /\ ppc = "loop"
    /\ \E file \in FilesFor(argv) :
          \E r \in {LoopBody(file, pi + 1, args, argv)} :
              /\ flines' = file
              /\ seen' = Append(seen, HasMarker(file))
              /\ args' = r.args
              /\ px' = r.px /\ py' = r.py /\ cx' = r.cx /\ cy' = r.cy
              /\ fx' = r.x /\ fy' = r.y
              /\ fx_unit' = r.x_unit /\ fy_unit' = r.y_unit
              /\ report' = r.report
              /\ plots' = IF r.plotted
                          THEN Append(plots, PlotLabel(args.legend, pi + 1))
                          ELSE plots
              /\ pexc' = r.exc
              /\ ppc' = IF r.exc = "none" THEN "plotted" ELSE "failed"
    /\ pi' = pi + 1
    /\ UNCHANGED <<argv, saved>>
    /\ UNCHANGED <<uvars, vvars>>

\* the loop goes on: args.xvg holds another path; line 159 empties x and y,
\* and the pass assigns every other variable of the file anew
NextFile ==
    /\ ppc = "plotted"
    /\ pi < MaxFiles
    /\ ppc' = "loop"
    /\ flines' = <<>>
    /\ px' = <<>> /\ py' = <<>> /\ cx' = <<>> /\ cy' = <<>>
    /\ fx' = <<>> /\ fy' = <<>>
    /\ fx_unit' = <<>> /\ fy_unit' = <<>>
    /\ report' = NoReport
    /\ UNCHANGED <<argv, args, pi, seen, plots, saved, pexc>>
    /\ UNCHANGED <<uvars, vvars>>

\* the loop ends after pi files: lines 336-350
Finish ==
    /\ ppc = "plotted"
    /\ IF FinishRaises(pi)
       THEN /\ pexc' = "AttributeError"
            /\ ppc' = "failed"
            /\ saved' = saved
       ELSE /\ pexc' = pexc
            /\ ppc' = "done"
            /\ saved' = saved + 1
    /\ UNCHANGED <<argv, args, pi, seen, flines, px, py, cx, cy, fx, fy,
                   fx_unit, fy_unit, report, plots>>
    /\ UNCHANGED <<uvars, vvars>>

(***************************************************************************)
(* The PyMOL session (pymol.cmd), as far as the scripts use it.  The       *)
(* engine is not part of the repository: a load of a path that does not    *)
(* exist and an align of a name the session does not hold raise            *)
(* CmdException.  An object name is a sequence of its '_'-separated parts. *)
(***************************************************************************)
\* the files of the working directory, and the models each one holds
Existing == {"a.pdb", "b.pdb", "ref.pdb"}

Frames(path) == IF path = "a.pdb" THEN 3 ELSE 1

\* cmd.count_atoms of a selection expression: "chain Z" selects nothing
SelectsAtoms(selection) == selection # "chain Z"

\* f"{i:04d}" and f"{i}"
Fmt04(i) == CASE i = 1 -> "0001" [] i = 2 -> "0002" [] i = 3 -> "0003"
              [] i = 4 -> "0004" [] OTHER -> "0005"

Str(i) == CASE i = 0 -> "0" [] i = 1 -> "1" [] i = 2 -> "2" [] OTHER -> "3"

Call(op, path, name, target, input) ==
    [op |-> op, path |-> path, name |-> name, target |-> target,
     input |-> input]

Object(name, input) == [name |-> name, input |-> input]

Names(e) == {o.name : o \in e.session}

\* the call is logged; it runs only if no exception is pending
Logged(e, call) == [e EXCEPT !.log = Append(@, call)]

CmdLoad(e, path, name, input) ==
    IF e.exc # "none" THEN e
    ELSE IF path \notin Existing
         THEN [Logged(e, Call("load", path, name, <<>>, input))
                  EXCEPT !.exc = "CmdException"]
    ELSE [Logged(e, Call("load", path, name, <<>>, input))
             EXCEPT !.session = @ \cup {Object(name, input)}]

CmdSelect(e, name, input) ==
    IF e.exc # "none" THEN e
    ELSE [Logged(e, Call("select", "", name, <<>>, input))
             EXCEPT !.session = @ \cup {Object(name, input)}]

\* cmd.split_states(name): one object per state, named name_0001, ...
CmdSplitStates(e, name, frames, input) ==
    IF e.exc # "none" THEN e
    ELSE [Logged(e, Call("split_states", "", name, <<>>, input))
             EXCEPT !.session =
                 @ \cup {Object(Append(name, Fmt04(j)), input) : j \in 1..frames}]

CmdAlign(e, name, target, input) ==
    IF e.exc # "none" THEN e
    ELSE IF name \notin Names(e) \/ target \notin Names(e)
         THEN [Logged(e, Call("align", "", name, target, input))
                  EXCEPT !.exc = "CmdException"]
    ELSE Logged(e, Call("align", "", name, target, input))

\* a call that changes the view only: hide, orient, zoom, bg_color, set,
\* ray, png
CmdView(e, op, name, input) ==
    IF e.exc # "none" THEN e
    ELSE Logged(e, Call(op, "", name, <<>>, input))

\* the call is made and the objects stay
CmdDeleteNothing(e, input) ==
    IF e.exc # "none" THEN e
    ELSE Logged(e, Call("delete", "", <<"all">>, <<>>, input))

\* cmd.delete("all")
CmdDeleteAll(e, input) ==
    IF e.exc # "none" THEN e
    ELSE [Logged(e, Call("delete", "", <<"all">>, <<>>, input))
             EXCEPT !.session = {}]

PyRaise(e, exc) == IF e.exc # "none" THEN e ELSE [e EXCEPT !.exc = exc]

(***************************************************************************)
(* cli/visualize_pdb.py                                                    *)
(***************************************************************************)
\* lines 145-147 and 149-151: for i in range(from, n_models + 1): align
RECURSIVE AlignModels(_, _, _, _, _, _)
AlignModels(e, align_obj, from, to, target, input) ==
    IF from > to THEN e
    ELSE AlignModels(CmdAlign(e, Append(align_obj, Fmt04(from)), target, input),
                     align_obj, from + 1, to, target, input)

\* lines 143-151: the alignment of the models to the reference, or to the
\* first model when there is no reference; ref is None or Some(path)
AlignSplit(e, align_obj, ref, n, input) ==
    IF ref # None
    THEN AlignModels(CmdLoad(e, ref[1], <<"reference">>, input), align_obj, 1,
                     n, <<"reference">>, input)
    ELSE AlignModels(e, align_obj, 2, n, Append(align_obj, "0001"), input)

\* the models that exist are aligned before n_models is checked
SplitBranchLate(e, obj_name, align_obj, ref, n_models, frames, input) ==
    LET e1 == CmdSplitStates(e, obj_name, frames, input)
        e2 == AlignSplit(e1, align_obj, ref, frames, input)
    IN  IF n_models # None /\ n_models[1] > frames
        THEN PyRaise(e2, "ValueError(n_models)")
        ELSE AlignSplit(e1, align_obj, ref,
                        IF n_models = None THEN frames ELSE n_models[1], input)

\* lines 133-151: n_models is None or Some(n); frames is cmd.count_states
SplitBranch(e, obj_name, align_obj, ref, n_models, frames, input) ==
    LET e1 == CmdSplitStates(e, obj_name, frames, input)
    IN  IF n_models # None /\ n_models[1] > frames
        THEN PyRaise(e1, "ValueError(n_models)")
        ELSE AlignSplit(e1, align_obj, ref,
                        IF n_models = None THEN frames ELSE n_models[1], input)

\* lines 157-160
PlainBranch(e, obj_name, ref, input) ==
    IF ref = None THEN e
    ELSE CmdAlign(CmdLoad(e, ref[1], <<"reference">>, input), obj_name,
                  <<"reference">>, input)

\* lines 126-131: selection is None or Some(expression)
SelectBranch(e, obj_name, selection, input) ==
    IF selection = None THEN e
    ELSE LET e1 == CmdSelect(e, Append(obj_name, "selected"), input)
         IN  IF ~SelectsAtoms(selection[1]) THEN PyRaise(e1, "ValueError(selection)")
             ELSE CmdView(e1, "hide", Append(obj_name, "selected"), input)

\* lines 97-164; e is the engine with the exception pending, if any
load_and_align(e, obj_name, pdb_file, ref, split, n_models, selection, zoom, input) ==
    LET e1 == CmdLoad(e, pdb_file, obj_name, input)
        name == IF selection = None THEN obj_name
                ELSE Append(obj_name, "selected")
        e2 == SelectBranch(e1, obj_name, selection, input)
        e3 == IF split
              THEN SplitBranch(e2, name, obj_name, ref, n_models,
                               Frames(pdb_file), input)
              ELSE PlainBranch(e2, name, ref, input)
        e4 == CmdView(e3, "orient", <<>>, input)
    IN  IF zoom THEN CmdView(e4, "zoom", name, input) ELSE e4

\* lines 167-186
render_image(e, input) ==
    CmdView(CmdView(CmdView(CmdView(e, "bg_color", <<>>, input),
                            "set", <<>>, input),
                    "ray", <<>>, input),
            "png", <<>>, input)

\* lines 193-198 of visualize_pdb.py, 113-118 of visualize_and_align.py
MissingFile(av) ==
    \/ \E j \in 1..Len(av.pdb_files) : av.pdb_files[j] \notin Existing
    \/ av.ref # None /\ av.ref[1] \notin Existing

\* lines 199-213: args.outputs is None (0) or a list, given by its length;
\* the value is the exception, or the length of args.outputs afterwards
CheckOutputs(av) ==
    IF av.align_all
    THEN IF av.ref = None THEN [exc |-> "ValueError(ref)", outputs |-> 0]
         ELSE IF av.outputs # 0 /\ av.outputs # 1
              THEN [exc |-> "ValueError(outputs)", outputs |-> 0]
         ELSE [exc |-> "none", outputs |-> 1]
    ELSE IF av.outputs # 0 /\ av.outputs # Len(av.pdb_files)
         THEN [exc |-> "ValueError(outputs)", outputs |-> 0]
    ELSE [exc |-> "none", outputs |-> Len(av.pdb_files)]

\* step 1 of main() of visualize_pdb.py
ValidatePdb(av) ==
    IF MissingFile(av) THEN [exc |-> "FileNotFoundError", outputs |-> 0]
    ELSE CheckOutputs(av)

(***************************************************************************)
(* cli/visualize_and_align.py: the parser defines --output, and main()     *)
(* reads args.outputs (lines 123, 129)                                     *)
(***************************************************************************)
ValidateAlign(av) ==
    IF MissingFile(av) THEN [exc |-> "FileNotFoundError", outputs |-> 0]
    ELSE IF av.align_all /\ av.ref = None
         THEN [exc |-> "ValueError(ref)", outputs |-> 0]
    ELSE [exc |-> "AttributeError", outputs |-> 0]

(***************************************************************************)
(* The inputs and the steps of a run of a visualization script.            *)
(***************************************************************************)
Paths == {"a.pdb", "b.pdb", "missing.pdb"}

PdbArgvs ==
    {[script |-> "visualize_pdb", pdb_files |-> fs, ref |-> r, outputs |-> o,
      align_all |-> a, split |-> sp, n_models |-> nm, selection |-> sel,
      zoom |-> z] :
        fs \in UNION {[1..n -> Paths] : n \in 1..MaxInputs},
        r \in {None, Some("ref.pdb"), Some("missing.pdb")},
        o \in 0..MaxInputs, a \in BOOLEAN, sp \in BOOLEAN,
        nm \in {None, Some(2)},
        sel \in {None, Some("chain A"), Some("chain Z")}, z \in BOOLEAN}

\* visualize_and_align.py has no --split, --n_models, --selection, --zoom
AlignArgvs ==
    {[script |-> "visualize_and_align", pdb_files |-> fs, ref |-> r,
      outputs |-> o, align_all |-> a, split |-> FALSE, n_models |-> None,
      selection |-> None, zoom |-> FALSE] :
        fs \in UNION {[1..n -> Paths] : n \in 1..MaxInputs},
        r \in {None, Some("ref.pdb"), Some("missing.pdb")},
        o \in 0..MaxInputs, a \in BOOLEAN}

InitViz ==
    /\ vargv \in PdbArgvs \cup AlignArgvs
    /\ vpc = "validate"
    /\ vi = 0
    /\ voutputs = 0
    /\ validated = FALSE
    /\ session = {}
    /\ vlog = <<>>
    /\ verr = "none"

Engine == [session |-> session, log |-> vlog, exc |-> "none"]

\* step 1 of main(): "Check input arguments"
ValidateArgs ==
    /\ vpc = "validate"
    /\ LET r == IF vargv.script = "visualize_pdb" THEN ValidatePdb(vargv)
                ELSE ValidateAlign(vargv)
       IN  /\ verr' = r.exc
           /\ voutputs' = r.outputs
           /\ validated' = (r.exc = "none")
           /\ vpc' = IF r.exc # "none" THEN "failed"
                     ELSE IF vargv.align_all THEN "load_ref" ELSE "load"
    /\ UNCHANGED <<vargv, vi, session, vlog>>
    /\ UNCHANGED <<uvars, pvars>>

\* lines 217-219 of visualize_pdb.py (args.ref is set: validation saw to it)
LoadReference ==
    /\ vpc = "load_ref"
    /\ LET e == CmdLoad(Engine, vargv.ref[1], <<"reference">>, 0)
       IN  /\ session' = e.session
           /\ vlog' = e.log
           /\ verr' = e.exc
           /\ vpc' = IF e.exc = "none" THEN "load" ELSE "failed"
    /\ UNCHANGED <<vargv, vi, voutputs, validated>>
    /\ UNCHANGED <<uvars, pvars>>

\* lines 220-229 and 234-243: the call of load_and_align for the next input
LoadAndAlign ==
    /\ vpc = "load"
    /\ vi < Len(vargv.pdb_files)
    /\ LET e == IF vargv.align_all
                THEN load_and_align(Engine, <<"structure", Str(vi)>>,
                                    vargv.pdb_files[vi + 1], Some("reference"),
                                    vargv.split, vargv.n_models,
                                    vargv.selection, vargv.zoom, vi + 1)
                ELSE load_and_align(Engine, <<"structure">>,
                                    vargv.pdb_files[vi + 1], vargv.ref,
                                    vargv.split, vargv.n_models,
                                    vargv.selection, vargv.zoom, vi + 1)
       IN  /\ session' = e.session
           /\ vlog' = e.log
           /\ verr' = e.exc
           /\ vpc' = IF e.exc # "none" THEN "failed"
                     ELSE IF vargv.align_all /\ vi + 1 < Len(vargv.pdb_files)
                          THEN "load"
                     ELSE "render"
    /\ vi' = vi + 1
    /\ UNCHANGED <<vargv, voutputs, validated>>
    /\ UNCHANGED <<uvars, pvars>>

\* lines 231-232 and 244
RenderImage ==
    /\ vpc = "render"
    /\ LET e == render_image(Engine, vi)
       IN  /\ session' = e.session
           /\ vlog' = e.log
    /\ vpc' = IF vargv.align_all THEN "done" ELSE "delete"
    /\ UNCHANGED <<vargv, vi, voutputs, validated, verr>>
    /\ UNCHANGED <<uvars, pvars>>

\* line 245
DeleteAll ==
    /\ vpc = "delete"
    /\ LET e == CmdDeleteAll(Engine, vi)
       IN  /\ session' = e.session
           /\ vlog' = e.log
    /\ vpc' = IF vi < Len(vargv.pdb_files) THEN "load" ELSE "done"
    /\ UNCHANGED <<vargv, vi, voutputs, validated, verr>>
    /\ UNCHANGED <<uvars, pvars>>

(***************************************************************************)
(* The specifications: one per script family.  The variables of the other  *)
(* families stay at rest.                                                  *)
(***************************************************************************)
UtilsAtRest ==
    /\ ufn = "rest" /\ uhist = <<>> /\ udata0 = <<>> /\ udata = <<>>
    /\ uunit = "None" /\ uexc = "none" /\ un = 0 /\ ulayout = <<>>
    /\ cpargs = <<>>

PlotAtRest ==
    /\ argv = <<>> /\ args = <<>> /\ ppc = "rest" /\ pi = 0 /\ seen = <<>>
    /\ flines = <<>> /\ px = <<>> /\ py = <<>> /\ cx = <<>> /\ cy = <<>>
    /\ fx = <<>> /\ fy = <<>> /\ fx_unit = <<>> /\ fy_unit = <<>>
    /\ report = NoReport /\ plots = <<>> /\ saved = 0 /\ pexc = "none"

VizAtRest ==
    /\ vargv = <<>> /\ vpc = "rest" /\ vi = 0 /\ voutputs = 0
    /\ validated = FALSE /\ session = {} /\ vlog = <<>> /\ verr = "none"

InitU == InitUtils /\ PlotAtRest /\ VizAtRest

InitP == UtilsAtRest /\ InitPlot /\ VizAtRest

InitV == UtilsAtRest /\ PlotAtRest /\ InitViz

NextUtils == ApplyConversion \/ GetSubplotLayout \/ CombinePlots

NextPlot == ProcessFile \/ NextFile \/ Finish

NextViz ==
    ValidateArgs \/ LoadReference \/ LoadAndAlign \/ RenderImage \/ DeleteAll

SpecUtils == InitU /\ [][NextUtils]_vars

SpecPlot == InitP /\ [][NextPlot]_vars

SpecViz == InitV /\ [][NextViz]_vars

Init == InitU \/ InitP \/ InitV

Next == NextUtils \/ NextPlot \/ NextViz

Spec == Init /\ [][Next]_vars

(***************************************************************************)
(* Properties.                                                             *)
(***************************************************************************)
Strip(unit) == IF unit # <<>> /\ unit[1] = " " THEN Tail(unit) ELSE unit

Last(seq) == seq[Len(seq)]

\* the rows of a file: the lines that follow its metadata block
Rows(file) == SelectSeq(file, LAMBDA l : ~IsMeta(l))

WellFormed(file, column) ==
    \A j \in 1..Len(file) :
        \/ IsMeta(file[j]) /\ \A h \in 1..j : IsMeta(file[h])
        \/ /\ ~file[j].hash
           /\ Len(file[j].tokens) >= column + 1
           /\ Float(file[j].tokens[1]) # None
           /\ Float(file[j].tokens[column + 1]) # None

\* the x values of the rows grow, so that no row restarts the series
Increasing(file) ==
    \A j \in 2..Len(Rows(file)) :
        NLess(Float(Rows(file)[j - 1].tokens[1])[1], Float(Rows(file)[j].tokens[1])[1])

\* C1: parsing a file whose metadata block is followed by well-formed rows
\* (of growing x) yields one (x, y) pair per row, in file order and with the
\* final row: x is token 0 and y the token at the column index.
C1_EveryRowParsed ==
    (/\ ppc \in {"plotted", "done"}
     /\ WellFormed(flines, argv.column)
     /\ Increasing(flines)) =>
        /\ px = [j \in 1..Len(Rows(flines)) |-> Float(Rows(flines)[j].tokens[1])[1]]
        /\ py = [j \in 1..Len(Rows(flines)) |->
                    Float(Rows(flines)[j].tokens[argv.column + 1])[1]]

CeilSqrt(n) == CHOOSE c \in 1..n : c * c >= n /\ (c - 1) * (c - 1) < n

CeilDiv(n, c) == CHOOSE r \in 1..n : r * c >= n /\ (r - 1) * c < n

SquareLayout(n, layout) ==
    /\ layout = <<CeilSqrt(n), CeilDiv(n, CeilSqrt(n))>>
    /\ layout[1] * layout[2] >= n
    /\ layout[2] <= layout[1] /\ layout[1] <= layout[2] + 1
    /\ layout[1] * (layout[2] - 1) < n

\* C2: for every n >= 1, get_subplot_layout(n) returns (columns, rows) with
\* columns = ceil(sqrt(n)) and rows = ceil(n / columns), so that the grid
\* holds n cells, is square or one column wider, and has no spare row.
C2_LayoutReturned ==
    (ufn = "get_subplot_layout") => (uexc = "none" /\ SquareLayout(un, ulayout))

\* the unit labels of the conversion table, as the code spells its units
TableUnit(name) ==
    CASE name = "ps to ns" -> Strip(U_ns)
      [] name = "ns to ps" -> Strip(U_ps)
      [] name \in {"kT to kJ/mol", "kcal/mol to kJ/mol"} -> U_kJ
      [] name \in {"kJ/mol to kT", "kcal/mol to kT"} -> U_kT
      [] name \in {"kT to kcal/mol", "kJ/mol to kcal/mol"} -> U_kcal
      [] name = "degree to radian" -> Strip(U_radian)
      [] name = "radian to degree" -> Strip(U_degree)

\* C3: in the plotting utility, for every conversion and either axis, the
\* data are transformed once by the formula of the conversion table and the
\* unit becomes the label of the table (the formulas are those of the
\* registry; a leading blank of the unit is not counted).
C3_PlotFollowsTable ==
    (ppc \in {"plotted", "done"}) =>
        /\ (argv.x_conversion # "None") =>
              /\ cx = LambdaBody(argv.x_conversion, px, T298)
              /\ Strip(fx_unit) = TableUnit(argv.x_conversion)
        /\ (argv.y_conversion # "None") =>
              /\ cy = LambdaBody(argv.y_conversion, py, T298)
              /\ Strip(fy_unit) = TableUnit(argv.y_conversion)

IsRoundTrip(a, b) ==
    /\ Len(uhist) = 2
    /\ uhist[1][1] = a /\ uhist[2][1] = b
    /\ uhist[1][2] # None /\ uhist[1][2] = uhist[2][2]

\* C4: converting kT to kJ/mol and back at one temperature T > 0 returns the
\* data it started from, with unit kT; the other way round it returns them
\* with unit kJ/mol.
C4_RoundTrip ==
    /\ IsRoundTrip("kT to kJ/mol", "kJ/mol to kT") =>
          (uexc = "none" /\ udata = udata0 /\ uunit = "kT")
    /\ IsRoundTrip("kJ/mol to kT", "kT to kJ/mol") =>
          (uexc = "none" /\ udata = udata0 /\ uunit = "kJ/mol")

C4_Witness ==
    /\ IsRoundTrip("kT to kJ/mol", "kJ/mol to kT")
    /\ udata0 = <<Rat(-5, 2)>>
    /\ udata = udata0

\* C5: apply_conversion with a name that is set and not registered raises
\* (KeyError) and returns no data: neither the data it was given nor data
\* converted by another entry.
C5_UnknownConversion ==
    (ufn = "apply_conversion" /\ Last(uhist)[1] \notin ConversionNames \cup {"None"})
        => (uexc = "KeyError" /\ udata = <<>> /\ uunit = "None")

C5_Witness ==
    /\ ufn = "apply_conversion"
    /\ Last(uhist)[1] = "foo to bar"
    /\ uexc = "KeyError"

\* C6: apply_conversion called without a temperature converts as it does
\* with temp = 298.15, for every conversion that involves kT.
C6_DefaultTemperature ==
    (Len(uhist) = 1 /\ NeedsTemp(uhist[1][1]) /\ uhist[1][2] = None) =>
        /\ uexc = "none"
        /\ udata = apply_conversion(udata0, uhist[1][1], Some(T298)).data

\* C7: when a metadata line of a file holds the marker and no -cx was given,
\* the x values of the file are divided by 1000 and their unit is ns; when
\* -cx was given, the marker leaves that conversion in place.
C7_MarkerDefault ==
    (ppc \in {"plotted", "done"} /\ HasMarker(flines)) =>
        IF argv.x_conversion = "None"
        THEN /\ args.x_conversion = "ps to ns"
             /\ cx = [j \in 1..Len(px) |-> NDiv(px[j], Rat(1000, 1))]
             /\ Strip(fx_unit) = Strip(U_ns)
        ELSE /\ args.x_conversion = argv.x_conversion
             /\ cx = ApplyRules([data |-> px, unit |-> <<>>], XRules,
                                argv.x_conversion, T298).data

C7_Witness ==
    /\ ppc = "plotted"
    /\ HasMarker(flines)
    /\ argv.x_conversion = "None"
    /\ px = <<Rat(1, 1), Rat(2, 1)>>
    /\ cx = <<Rat(1, 1000), Rat(1, 500)>>

\* the arguments step 1 of main() is meant to accept
ArgsValid(av) ==
    /\ ~MissingFile(av)
    /\ av.align_all => av.ref # None
    /\ av.outputs # 0 =>
          av.outputs = (IF av.align_all THEN 1 ELSE Len(av.pdb_files))

\* C8: in both visualization scripts, invalid arguments end the run in an
\* argument or missing-file error before any call of the engine, and valid
\* arguments pass validation.
C8_FailFast ==
    (vpc \notin {"rest", "validate"}) =>
        IF ArgsValid(vargv) THEN validated
        ELSE /\ vpc = "failed"
             /\ vlog = <<>>
             /\ verr \in {"FileNotFoundError", "ValueError(ref)",
                          "ValueError(outputs)"}

AlignsOf(input) == {j \in 1..Len(vlog) : vlog[j].op = "align" /\ vlog[j].input = input}

\* C9 as stated: when n_models exceeds the frame count of an input, no align
\* call of any input precedes the failure.
C9_NoAlignBefore ==
    (verr = "ValueError(n_models)") => \A j \in 1..Len(vlog) : vlog[j].op # "align"

\* C9: when n_models exceeds the frame count of an input, the run fails
\* before any alignment of that input is attempted (the calls made for the
\* inputs before it have happened).
C9_NoAlignOfThatInput ==
    (verr = "ValueError(n_models)") =>
        /\ vpc = "failed"
        /\ vargv.n_models[1] > Frames(vargv.pdb_files[vi])
        /\ AlignsOf(vi) = {}
        /\ \A j \in 1..Len(vlog) : vlog[j].op = "png" => vlog[j].input < vi

C9_Witness ==
    /\ verr = "ValueError(n_models)"
    /\ vi = 2
    /\ AlignsOf(1) # {}
    /\ vargv.ref # None

\* C10: whenever the unit of the x axis is ns or ps, the report names the x
\* at which y is greatest and least and the point whose y is nearest the
\* mean, each the first of its kind, and the series is left as it was.
C10_TimeReport ==
    (ppc \in {"plotted", "done"} /\ Strip(fx_unit) \in {Strip(U_ns), Strip(U_ps)}) =>
        /\ report.timed
        /\ report.x_at_max = Some(fx[IndexOf(fy, Max(fy))])
        /\ report.x_at_min = Some(fx[IndexOf(fy, Min(fy))])
        /\ report.t_avg = Some(fx[ArgMin(AbsDiff(fy, Mean(fy)))])
        /\ report.y_near = Some(fy[ArgMin(AbsDiff(fy, Mean(fy)))])

\* the positions of the lines the parse loop visits
Window(file) == (CountMeta(file) + 1)..LastParsed(file)

Marks(file) == {j \in Window(file) : file[j].hash}

IsRow(line, column) ==
    /\ ~line.hash /\ line.first # "@"
    /\ Len(line.tokens) >= column + 1
    /\ Float(line.tokens[1]) # None
    /\ Float(line.tokens[column + 1]) # None

\* the tokens at (1-based) position k of the rows at positions from..to
Column(file, from, to, k) ==
    LET rows == SelectSeq(SubSeq(file, from, to), LAMBDA l : ~l.hash)
    IN  [j \in 1..Len(rows) |-> Float(rows[j].tokens[k])[1]]

Below(xs, v) == SelectSeq(xs, LAMBDA e : NLess(e, v))

\* a file whose loop meets one line with '#', rows before and after it
OneMark(file, column) ==
    /\ Cardinality(Marks(file)) = 1
    /\ \A j \in Window(file) \ Marks(file) : IsRow(file[j], column)
    /\ \A j \in Marks(file) : /\ file[j + 1].tokens # <<>>
                              /\ Float(file[j + 1].tokens[1]) # None

\* C11: when the loop meets a line with '#' among the rows, it reads the x
\* token v of the line after it, keeps of the x read so far the values below
\* v and cuts y to the new length of x; after the parse of any file, x and y
\* have one length.
C11_Splice ==
    (ppc # "loop" /\ pi > 0) =>
        /\ Len(px) = Len(py)
        /\ (pexc = "none" /\ OneMark(flines, argv.column)) =>
              LET j == CHOOSE m \in Marks(flines) : TRUE
                  v == Float(flines[j + 1].tokens[1])[1]
                  first == CountMeta(flines) + 1
                  xb == Column(flines, first, j - 1, 1)
                  yb == Column(flines, first, j - 1, argv.column + 1)
                  xa == Column(flines, j + 1, LastParsed(flines), 1)
                  ya == Column(flines, j + 1, LastParsed(flines), argv.column + 1)
              IN  /\ px = Below(xb, v) \o xa
                  /\ py = SubSeq(yb, 1, Len(Below(xb, v))) \o ya

C11_Witness ==
    /\ ppc = "plotted"
    /\ flines = <<LHeader, LData1, LData2, LAppended, LData2, LData1>>
    /\ argv.column = 1
    /\ OneMark(flines, argv.column)
    /\ px = <<Rat(1, 1), Rat(2, 1)>>
    /\ py = <<Rat(2, 1), Rat(4, 1)>>

\* a line that is no row: too few tokens, or a token read that is no float
Malformed(line, column) ==
    \/ Len(line.tokens) < column + 1
    \/ Float(line.tokens[1]) = None
    \/ Float(line.tokens[column + 1]) = None

\* C12: when a line after the metadata block (a blank line or the last line
\* of the file as well) has fewer than column + 1 tokens, or a token that is
\* read is no float, the parse raises and no figure is saved.
C12_MalformedRowFails ==
    (/\ ppc # "loop" /\ pi > 0
     /\ \E j \in 1..Len(flines) :
           /\ ~IsMeta(flines[j]) /\ ~flines[j].hash
           /\ Malformed(flines[j], argv.column)) =>
        /\ ppc = "failed"
        /\ pexc \in {"IndexError", "ValueError"}
        /\ saved = 0

PerFile == vargv.script = "visualize_pdb" /\ ~vargv.align_all

\* C13: in per-file mode, when the image of input i is rendered the session
\* holds only objects made for input i (its structure, selection, models
\* and the reference); the objects of the inputs before it were deleted
\* before input i was loaded.
C13_SessionOfOneInput ==
    PerFile =>
        /\ vpc \in {"render", "delete"} => \A o \in session : o.input = vi
        /\ vpc = "load" => session = {}
        /\ \A j \in 1..Len(vlog) :
              vlog[j].op = "png" => \A o \in session : o.input >= vlog[j].input

C13_Witness ==
    /\ PerFile
    /\ vpc = "delete"
    /\ vi = 2
    /\ \E o \in session : o.name = <<"reference">> /\ o.input = 2
    /\ \E j \in 1..Len(vlog) : vlog[j].op = "png" /\ vlog[j].input = 1

\* C14: in a run over several files with no -cx, the x conversion of a file
\* follows from its own metadata: the x values of a file without the marker
\* are left as they were read, whatever the files before it held.
C14_OwnMetadata ==
    (/\ ppc \in {"plotted", "done"}
     /\ argv.x_conversion = "None"
     /\ ~HasMarker(flines)) =>
        /\ cx = px
        /\ fx_unit = LabelUnit(argv.xlabel)

\* C16: every path handed to cmd.load is a path of the command line, an
\* input structure or the reference, which the existence check has seen;
\* the reference is loaded from its path.
C16_LoadedPaths ==
    \A j \in 1..Len(vlog) :
        vlog[j].op = "load" =>
            /\ validated
            /\ vlog[j].path \in Existing
            /\ \/ \E h \in 1..Len(vargv.pdb_files) : vlog[j].path = vargv.pdb_files[h]
               \/ vargv.ref # None /\ vlog[j].path = vargv.ref[1]
            /\ vlog[j].name = <<"reference">> =>
                  (vargv.ref # None /\ vlog[j].path = vargv.ref[1])

\* C17: a run over k >= 1 well-formed files, with or without --legend,
\* plots each file in the order given and then saves the figure once: the
\* end of the loop is followed by the save, for k > 1 as for k = 1.
C17_LoopEndSaves ==
    [][(ppc = "plotted" /\ ppc' \notin {"plotted", "loop"}) =>
          /\ ppc' = "done"
          /\ saved' = 1
          /\ plots' = [i \in 1..pi |-> PlotLabel(argv.legend, i)]]_vars

\* C15: after the parse of any file, with marks and with x in any order,
\* every pair (x[i], y[i]) that is kept was read from one line of the file:
\* the cut at a mark never puts the x of one row beside the y of another.
C15_PairsFromOneRow ==
    (ppc \in {"plotted", "done"}) =>
        /\ Len(px) = Len(py)
        /\ \A i \in 1..Len(px) :
              \E j \in Window(flines) :
                  /\ IsRow(flines[j], argv.column)
                  /\ px[i] = Float(flines[j].tokens[1])[1]
                  /\ py[i] = Float(flines[j].tokens[argv.column + 1])[1]

=============================================================================
